---- MODULE Spec2Model ----
(***************************************************************************)
(* A model of miles.py: crawl() fetches one seed page, extracts the URLs   *)
(* matching the requested file types, downloads them through a process     *)
(* pool of `cpus` workers and prints a four-line report.                   *)
(*                                                                         *)
(* The network, the clock and the scheduler are the environment: every GET *)
(* picks its outcome with \E, the clock may or may not advance between two *)
(* steps, and any worker that can take a step may take it.                 *)
(***************************************************************************)
EXTENDS Integers, Sequences, FiniteSets, TLC

VARIABLES
    pc,          \* position of the main process inside crawl()
    cpus,        \* crawl's argument cpus (pool size)
    file_types,  \* crawl's argument file_types
    now,         \* what time.time() returns at this moment
    start,       \* crawl's local start
    total_time,  \* crawl's local total_time
    seedGets,    \* number of GETs issued by extract_urls
    todo,        \* what the generator `sites` has still to yield
    data,        \* <<response.text>> of the seed page (NoData: no page received)
    tasks,       \* the URLs submitted to the executor, in submission order
    tpc,         \* per submitted call: position inside download_url
    gets,        \* per submitted call: number of GETs issued
    resp,        \* per submitted call: size of the body received (NoBody: none)
    result,      \* per submitted call: what download_url returned
    fs,          \* the destination directory: filename -> content
    next_result, \* index of the result the for-loop of crawl waits for
    file_num,    \* crawl's local file_num
    files,       \* crawl's local files
    out,         \* everything printed so far, in order
    args,        \* the arguments of the call under way (main, resolve_url)
    ret          \* what a direct call of resolve_url returned

vars == <<pc, cpus, file_types, now, start, total_time, seedGets, todo, data,
          tasks, tpc, gets, resp, result, fs, next_result, file_num, files, out,
          args, ret>>

----------------------------------------------------------------------------
(* Bounds of the model *)

MaxCpus  == 2    \* cpus ranges over 1..MaxCpus
MaxSize  == 2    \* a response body has 1..MaxSize bytes
MaxClock == 1    \* the clock reads 0..MaxClock

(* Program constants *)

MEGABYTES == 1048576

DESTINATION == "d"

----------------------------------------------------------------------------
(* Values *)

\* None, as download_url returns it: a value no path equals.
None   == <<>>

\* The generator's local `data` before a page has been received.
NoData == <<>>
NoBody == -1

\* No direct call has returned.
NoReturn == <<>>
NoTime == -1

\* A URL: scheme, host and the path split at "/" (a trailing "/" shows as a
\* last segment "").
Url(scheme, host, path) == [scheme |-> scheme, host |-> host, path |-> path]

\* A link as written in the page: relative (scheme "") or absolute.
Rel(path) == Url("", "", path)

BaseUrl == Url("https", "seed", <<"dir", "">>)

FILE_REGEX ==
    [jpg |-> <<"img_jpg", "a_jpg">>,
     mp3 |-> <<"audio_mp3", "a_mp3">>,
     pdf |-> <<"a_pdf">>,
     png |-> <<"img_png", "a_png">>]

Rules == {"img_jpg", "a_jpg", "audio_mp3", "a_mp3", "a_pdf", "img_png", "a_png"}

NoMatches == [r \in Rules |-> <<>>]

\* The pages the seed URL may serve, each given by what re.findall returns on
\* it for every rule of the catalog.
PageCollide ==
    [NoMatches EXCEPT !["img_jpg"] = <<Rel(<<"x", "a.jpg">>), Rel(<<"y", "a.jpg">>)>>,
                      !["a_jpg"]   = <<Rel(<<"e.jpg">>)>>,
                      !["img_png"] = <<Url("https", "other", <<"b.png">>)>>]

PageTwice ==
    [NoMatches EXCEPT !["img_jpg"] = <<Rel(<<"x", "a.jpg">>)>>,
                      !["a_jpg"]   = <<Rel(<<"x", "a.jpg">>)>>,
                      !["a_pdf"]   = <<Rel(<<"c.pdf">>)>>]

PageDistinct ==
    [NoMatches EXCEPT !["img_jpg"] = <<Rel(<<"x", "a.jpg">>), Rel(<<"b.jpg">>)>>,
                      !["img_png"] = <<Url("http", "other", <<"y", "c.png">>)>>]

Pages == {NoMatches, PageCollide, PageTwice, PageDistinct}

FileTypeLists == {<<"jpg">>, <<"jpg", "png">>, <<"png", "jpg">>}

----------------------------------------------------------------------------
(* Pure functions *)

Last(s) == s[Len(s)]

Front(s) == SubSeq(s, 1, Len(s) - 1)

RECURSIVE Flatten(_)
Flatten(ss) == IF ss = <<>> THEN <<>> ELSE Head(ss) \o Flatten(Tail(ss))

RECURSIVE SumSeq(_)
SumSeq(s) == IF s = <<>> THEN 0 ELSE Head(s) + SumSeq(Tail(s))

\* A link's text is scheme://host/path, or the path alone when the scheme is
\* "". Inside a relative link, a segment "https:" followed by an empty segment
\* is the text "https://"; a leading empty segment is a leading "/", two of
\* them a leading "//" (the next segment is then a host).
IsAbsolute(url) == url.scheme # ""

IsNetworkPath(url) ==
    url.scheme = "" /\ Len(url.path) >= 3 /\ url.path[1] = "" /\ url.path[2] = ""

IsRooted(url) ==
    url.scheme = "" /\ Len(url.path) >= 1 /\ url.path[1] = "" /\ ~IsNetworkPath(url)

\* 'https://' in url (line 60): a substring test on the whole text.
ContainsHttps(url) ==
    \/ url.scheme = "https"
    \/ \E k \in 1..(Len(url.path) - 1) : url.path[k] = "https:" /\ url.path[k + 1] = ""

\* urljoin drops the empty segments in the middle of a merged path.
RECURSIVE DropEmptyMiddle(_)
DropEmptyMiddle(segs) ==
    IF Len(segs) <= 1 THEN segs
    ELSE IF Head(segs) = "" THEN DropEmptyMiddle(Tail(segs))
         ELSE <<Head(segs)>> \o DropEmptyMiddle(Tail(segs))

\* urljoin's loop over the segments: ".." pops, "." is skipped.
RECURSIVE RemoveDots(_, _)
RemoveDots(segs, acc) ==
    IF segs = <<>> THEN acc
    ELSE IF Head(segs) = ".."
         THEN RemoveDots(Tail(segs), IF acc = <<>> THEN acc ELSE Front(acc))
         ELSE IF Head(segs) = "."
              THEN RemoveDots(Tail(segs), acc)
              ELSE RemoveDots(Tail(segs), Append(acc, Head(segs)))

ResolvePath(segs) ==
    LET resolved == RemoveDots(segs, <<>>)
    IN  IF segs # <<>> /\ Last(segs) \in {".", ".."}
        THEN Append(resolved, "") ELSE resolved

\* urllib.parse.urljoin: a link with a scheme is returned as it is; "//host/p"
\* takes the base's scheme only; "/p" replaces the base's path; a relative
\* path replaces the last segment of the base's path.
urljoin(base, url) ==
    IF url.scheme # "" THEN url
    ELSE IF IsNetworkPath(url)
    THEN Url(base.scheme, url.path[3], SubSeq(url.path, 4, Len(url.path)))
    ELSE IF IsRooted(url)
    THEN Url(base.scheme, base.host, ResolvePath(Tail(url.path)))
    ELSE Url(base.scheme, base.host,
             ResolvePath(DropEmptyMiddle(Front(base.path) \o url.path)))

resolve_url(base, url) ==
    IF ContainsHttps(url) THEN url ELSE urljoin(base, url)

\* Line 82: FILE_REGEX[filetype] raises KeyError for a tag the catalog lacks.
\* TagsBeforeKeyError is the part of `types` the loop of line 81 gets through.
RaisesKeyError(types) == \E t \in 1..Len(types) : types[t] \notin DOMAIN FILE_REGEX

TagsBeforeKeyError(types) ==
    IF RaisesKeyError(types)
    THEN SubSeq(types, 1,
                (CHOOSE t \in 1..Len(types) :
                    /\ types[t] \notin DOMAIN FILE_REGEX
                    /\ \A u \in 1..(t - 1) : types[u] \in DOMAIN FILE_REGEX) - 1)
    ELSE types

\* s without the elements that occurred earlier in it.
RECURSIVE Dedup(_, _)
Dedup(s, seen) ==
    IF s = <<>> THEN <<>>
    ELSE IF Head(s) \in seen THEN Dedup(Tail(s), seen)
         ELSE <<Head(s)>> \o Dedup(Tail(s), seen \cup {Head(s)})

\* An extract_urls that yields every URL only once.
ExtractFromDedup(url, types, text) ==
    LET valid == TagsBeforeKeyError(types)
    IN  Dedup(Flatten([t \in 1..Len(valid) |->
                  Flatten([r \in 1..Len(FILE_REGEX[valid[t]]) |->
                      LET found == text[FILE_REGEX[valid[t]][r]]
                      IN  [m \in 1..Len(found) |-> resolve_url(url, found[m])]])]),
              {})

\* Lines 80-84: the URLs extract_urls yields from the page `text`, in order
\* (up to the KeyError, when there is one).
ExtractFrom(url, types, text) ==
    LET valid == TagsBeforeKeyError(types)
    IN  Flatten([t \in 1..Len(valid) |->
            Flatten([r \in 1..Len(FILE_REGEX[valid[t]]) |->
                LET found == text[FILE_REGEX[valid[t]][r]]
                IN  [m \in 1..Len(found) |-> resolve_url(url, found[m])]])])

\* Lines 109-111 of download_url: strip one trailing "/", take the basename
\* (what follows the last "/" of the text: the last path segment, the host
\* when no path is left, "" when the text still ends in "/") and join it to
\* the destination.
Filename(url, destination) ==
    LET stripped == IF url.path # <<>> /\ Last(url.path) = ""
                    THEN Front(url.path) ELSE url.path
    IN  <<destination, IF stripped = <<>> THEN url.host ELSE Last(stripped)>>

\* The body download number i receives, when it has size n: n bytes, each
\* tagged with i so that bodies of different downloads differ everywhere.
Body(i, n) == [k \in 1..n |-> i]

\* An open that creates the file but keeps what an existing file holds.
OpenKeep(dir, name) ==
    [f \in DOMAIN dir \cup {name} |->
        IF f = name /\ name \notin DOMAIN dir THEN <<>> ELSE dir[f]]

\* open(filename, 'wb'): the file exists and is empty.
OpenTruncate(dir, name) ==
    [f \in DOMAIN dir \cup {name} |-> IF f = name THEN <<>> ELSE dir[f]]

\* A write of `body` at offset 0 through a descriptor opened earlier: bytes
\* the file holds beyond the body stay.
WriteAtZero(dir, name, body) ==
    LET old == IF name \in DOMAIN dir THEN dir[name] ELSE <<>>
        rest == IF Len(old) > Len(body)
                THEN SubSeq(old, Len(body) + 1, Len(old)) ELSE <<>>
    IN  [f \in DOMAIN dir \cup {name} |-> IF f = name THEN body \o rest ELSE dir[f]]

\* os.stat(file).st_size
StatSize(dir, name) == Len(dir[name])

\* f'{x:.2f}' of the quotient num/den, in hundredths (round half to even).
Fmt2(num, den) ==
    LET q == (num * 100) \div den
        r == (num * 100) % den
    IN  IF 2 * r > den \/ (2 * r = den /\ q % 2 = 1) THEN q + 1 ELSE q

----------------------------------------------------------------------------
(* State *)

Calls == 1..Len(tasks)

Running == {"get", "open", "write"}

\* The calls of download_url that have started and not yet returned.
InFlight == {i \in Calls : tpc[i] \in Running}

Terminated == pc \in {"done", "raised"}

\* A pool with one worker more than asked for.
PoolSizeOffByOne == cpus + 1

\* ProcessPoolExecutor(max_workers=cpus): the number of worker processes, each
\* running one call at a time.
PoolSize == cpus

Init ==
    /\ pc = "begin"
    /\ cpus \in 1..MaxCpus
    /\ file_types \in FileTypeLists
    /\ now = 0
    /\ start = NoTime
    /\ total_time = NoTime
    /\ seedGets = 0
    /\ todo = <<>>
    /\ data = NoData
    /\ tasks = <<>>
    /\ tpc = <<>>
    /\ gets = <<>>
    /\ resp = <<>>
    /\ result = <<>>
    /\ fs = <<>>
    /\ next_result = 1
    /\ file_num = 0
    /\ files = <<>>
    /\ out = <<>>
    /\ args = <<>>
    /\ ret = NoReturn

----------------------------------------------------------------------------
(* The environment's clock *)

Tick ==
    /\ ~Terminated
    /\ now < MaxClock
    /\ now' = now + 1
    /\ UNCHANGED <<args, ret, pc, cpus, file_types, start, total_time, seedGets, todo,
                   data, tasks, tpc, gets, resp, result, fs, next_result,
                   file_num, files, out>>

----------------------------------------------------------------------------
(* crawl, the main process *)

\* Lines 131-135. extract_urls is a generator function: calling it runs none
\* of its body, so no GET is issued here.
crawl_begin ==
    /\ pc = "begin"
    /\ start' = now
    /\ file_num' = 0
    /\ files' = <<>>
    /\ pc' = "map"
    /\ UNCHANGED <<args, ret, cpus, file_types, now, total_time, seedGets, todo, data,
                   tasks, tpc, gets, resp, result, fs, next_result, out>>

\* Lines 75-79, run by the first next(sites) inside executor.map: the GET
\* fails and the generator returns without yielding.
extract_urls_fail ==
    /\ pc = "map"
    /\ cpus >= 1
    /\ seedGets' = seedGets + 1
    /\ todo' = <<>>
    /\ pc' = "submit"
    /\ UNCHANGED <<args, ret, cpus, file_types, now, start, total_time, data, tasks,
                   tpc, gets, resp, result, fs, next_result, file_num, files,
                   out>>

\* Lines 75-84: the GET succeeds with some page; the matches it holds are what
\* the generator goes on to yield.
extract_urls_ok ==
    /\ pc = "map"
    /\ cpus >= 1
    /\ seedGets' = seedGets + 1
    /\ \E text \in Pages :
          /\ data' = <<text>>
          /\ todo' = ExtractFrom(BaseUrl, file_types, text)
    /\ pc' = "submit"
    /\ UNCHANGED <<args, ret, cpus, file_types, now, start, total_time, tasks,
                   tpc, gets, resp, result, fs, next_result, file_num, files,
                   out>>

\* Line 137, inside executor.map: the generator yields its next URL and the
\* call download_url(url, destination) is submitted to the pool.
map_submit ==
    /\ pc = "submit"
    /\ todo # <<>>
    /\ tasks' = Append(tasks, Head(todo))
    /\ todo' = Tail(todo)
    /\ tpc' = Append(tpc, "queued")
    /\ gets' = Append(gets, 0)
    /\ resp' = Append(resp, NoBody)
    /\ result' = Append(result, None)
    /\ UNCHANGED <<args, ret, pc, cpus, file_types, now, start, total_time, seedGets, data, fs,
                   next_result, file_num, files, out>>

\* Line 137: the generator is exhausted, executor.map returns the iterator of
\* results and the for-loop starts.
map_return ==
    /\ pc = "submit"
    /\ todo = <<>>
    /\ ~(data # NoData /\ RaisesKeyError(file_types))
    /\ pc' = "collect"
    /\ next_result' = 1
    /\ UNCHANGED <<args, ret, cpus, file_types, now, start, total_time, seedGets, todo,
                   data, tasks, tpc, gets, resp, result, fs, file_num, files,
                   out>>

\* A for-loop that is left for the report as soon as its first result is in.
crawl_collect_first ==
    /\ pc = "collect"
    /\ next_result <= Len(tasks)
    /\ tpc[next_result] = "returned"
    /\ IF result[next_result] = None
       THEN UNCHANGED <<file_num, files>>
       ELSE /\ file_num' = file_num + 1
            /\ files' = Append(files, result[next_result])
    /\ next_result' = next_result + 1
    /\ pc' = "stop"
    /\ UNCHANGED <<args, ret, cpus, file_types, now, start, total_time, seedGets, todo,
                   data, tasks, tpc, gets, resp, result, fs, out>>

\* A for-loop that puts each saved path in front of the ones it has.
crawl_collect_prepend ==
    /\ pc = "collect"
    /\ next_result <= Len(tasks)
    /\ tpc[next_result] = "returned"
    /\ IF result[next_result] = None
       THEN UNCHANGED <<file_num, files>>
       ELSE /\ file_num' = file_num + 1
            /\ files' = <<result[next_result]>> \o files
    /\ next_result' = next_result + 1
    /\ UNCHANGED <<args, ret, pc, cpus, file_types, now, start, total_time, seedGets, todo,
                   data, tasks, tpc, gets, resp, result, fs, out>>

\* Lines 137-141: the for-loop takes the next result, in submission order, once
\* that call has returned.
crawl_collect ==
    /\ pc = "collect"
    /\ next_result <= Len(tasks)
    /\ tpc[next_result] = "returned"
    /\ IF result[next_result] = None
       THEN UNCHANGED <<file_num, files>>
       ELSE /\ file_num' = file_num + 1
            /\ files' = Append(files, result[next_result])
    /\ next_result' = next_result + 1
    /\ UNCHANGED <<args, ret, pc, cpus, file_types, now, start, total_time, seedGets, todo,
                   data, tasks, tpc, gets, resp, result, fs, out>>

\* Line 136, leaving the with block: the results are exhausted and
\* executor.shutdown(wait=True) returns once no call is running.
pool_exit ==
    /\ pc = "collect"
    /\ next_result > Len(tasks)
    /\ InFlight = {}
    /\ pc' = "stop"
    /\ UNCHANGED <<args, ret, cpus, file_types, now, start, total_time, seedGets, todo,
                   data, tasks, tpc, gets, resp, result, fs, next_result,
                   file_num, files, out>>

\* Line 142.
crawl_stop_clock ==
    /\ pc = "stop"
    /\ total_time' = now - start
    /\ pc' = "report"
    /\ UNCHANGED <<args, ret, cpus, file_types, now, start, seedGets, todo, data, tasks,
                   tpc, gets, resp, result, fs, next_result, file_num, files,
                   out>>

\* Lines 143-144: the sum of os.stat(file).st_size over files, in bytes.
SizeTotalBytes == SumSeq([k \in 1..Len(files) |-> StatSize(fs, files[k])])

\* Lines 146-149: the four lines of the report; the values are in hundredths.
ReportLines ==
    <<[line |-> "Files Downloaded", value |-> file_num],
      [line |-> "Bytes Downloaded", value |-> Fmt2(SizeTotalBytes, MEGABYTES)],
      [line |-> "Elapsed Time", value |-> total_time * 100],
      [line |-> "Bandwidth", value |-> Fmt2(SizeTotalBytes, MEGABYTES * total_time)]>>

\* Line 145 with total_time = 0.0: size_total/total_time raises
\* ZeroDivisionError, which nothing catches; nothing is printed.
crawl_report_raise ==
    /\ pc = "report"
    /\ total_time = 0
    /\ pc' = "raised"
    /\ UNCHANGED <<args, ret, cpus, file_types, now, start, total_time, seedGets, todo,
                   data, tasks, tpc, gets, resp, result, fs, next_result,
                   file_num, files, out>>

\* Lines 143-149.
crawl_report ==
    /\ pc = "report"
    /\ total_time # 0
    /\ out' = out \o ReportLines
    /\ pc' = "done"
    /\ UNCHANGED <<args, ret, cpus, file_types, now, start, total_time, seedGets, todo,
                   data, tasks, tpc, gets, resp, result, fs, next_result,
                   file_num, files>>

----------------------------------------------------------------------------
(* download_url, run by the pool's workers *)

\* A download_url that starts its GET without printing the progress line.
download_url_begin_silent(i) ==
    /\ tpc[i] = "queued"
    /\ \A j \in 1..(i - 1) : tpc[j] # "queued"
    /\ Cardinality(InFlight) < PoolSize
    /\ tpc' = [tpc EXCEPT ![i] = "get"]
    /\ UNCHANGED <<args, ret, pc, cpus, file_types, now, start, total_time, seedGets, todo,
                   data, tasks, gets, resp, result, fs, next_result, file_num,
                   files, out>>

\* A free worker takes the oldest queued call and runs line 103.
download_url_begin(i) ==
    /\ tpc[i] = "queued"
    /\ \A j \in 1..(i - 1) : tpc[j] # "queued"
    /\ Cardinality(InFlight) < PoolSize
    /\ out' = Append(out, [line |-> "Downloading", value |-> tasks[i]])
    /\ tpc' = [tpc EXCEPT ![i] = "get"]
    /\ UNCHANGED <<args, ret, pc, cpus, file_types, now, start, total_time, seedGets, todo,
                   data, tasks, gets, resp, result, fs, next_result, file_num,
                   files>>

\* A download_url that tries a failed GET a second time before giving up.
download_url_fail_retry(i) ==
    /\ tpc[i] = "get"
    /\ gets' = [gets EXCEPT ![i] = @ + 1]
    /\ IF gets[i] = 0
       THEN UNCHANGED <<result, tpc>>
       ELSE /\ result' = [result EXCEPT ![i] = None]
            /\ tpc' = [tpc EXCEPT ![i] = "returned"]
    /\ UNCHANGED <<args, ret, pc, cpus, file_types, now, start, total_time, seedGets, todo,
                   data, tasks, resp, fs, next_result, file_num, files, out>>

\* A download_url that opens its file before the GET, so that a failed GET
\* leaves an empty file behind.
download_url_fail_touch(i) ==
    /\ tpc[i] = "get"
    /\ gets' = [gets EXCEPT ![i] = @ + 1]
    /\ result' = [result EXCEPT ![i] = None]
    /\ tpc' = [tpc EXCEPT ![i] = "returned"]
    /\ fs' = OpenTruncate(fs, Filename(tasks[i], DESTINATION))
    /\ UNCHANGED <<args, ret, pc, cpus, file_types, now, start, total_time, seedGets, todo,
                   data, tasks, resp, next_result, file_num, files, out>>

\* Lines 104-108: the GET fails (transport error or raise_for_status) and
\* download_url returns None.
download_url_fail(i) ==
    /\ tpc[i] = "get"
    /\ gets' = [gets EXCEPT ![i] = @ + 1]
    /\ result' = [result EXCEPT ![i] = None]
    /\ tpc' = [tpc EXCEPT ![i] = "returned"]
    /\ UNCHANGED <<args, ret, pc, cpus, file_types, now, start, total_time, seedGets, todo,
                   data, tasks, resp, fs, next_result, file_num, files, out>>

\* Lines 104-106: the GET succeeds with a body of some size.
download_url_get(i) ==
    /\ tpc[i] = "get"
    /\ gets' = [gets EXCEPT ![i] = @ + 1]
    /\ \E n \in 1..MaxSize : resp' = [resp EXCEPT ![i] = n]
    /\ tpc' = [tpc EXCEPT ![i] = "open"]
    /\ UNCHANGED <<args, ret, pc, cpus, file_types, now, start, total_time, seedGets, todo,
                   data, tasks, result, fs, next_result, file_num, files, out>>

\* Lines 109-112: open(filename, 'wb') creates or truncates the file.
download_url_open(i) ==
    /\ tpc[i] = "open"
    /\ Filename(tasks[i], DESTINATION)[2] # ""
    /\ fs' = OpenTruncate(fs, Filename(tasks[i], DESTINATION))
    /\ tpc' = [tpc EXCEPT ![i] = "write"]
    /\ UNCHANGED <<args, ret, pc, cpus, file_types, now, start, total_time, seedGets, todo,
                   data, tasks, gets, resp, result, next_result, file_num,
                   files, out>>

\* Lines 113-114: the body goes to the file through this call's own
\* descriptor, whose offset is 0, the file is closed and the path returned.
download_url_write(i) ==
    /\ tpc[i] = "write"
    /\ fs' = WriteAtZero(fs, Filename(tasks[i], DESTINATION), Body(i, resp[i]))
    /\ result' = [result EXCEPT ![i] = Filename(tasks[i], DESTINATION)]
    /\ tpc' = [tpc EXCEPT ![i] = "returned"]
    /\ UNCHANGED <<args, ret, pc, cpus, file_types, now, start, total_time, seedGets, todo,
                   data, tasks, gets, resp, next_result, file_num, files, out>>

\* Line 112 when the basename is empty: os.path.join(destination, '') names
\* the destination directory itself and open(..., 'wb') raises
\* IsADirectoryError, which nothing in download_url catches.
download_url_open_raise(i) ==
    /\ tpc[i] = "open"
    /\ Filename(tasks[i], DESTINATION)[2] = ""
    /\ tpc' = [tpc EXCEPT ![i] = "raised"]
    /\ UNCHANGED <<args, ret, pc, cpus, file_types, now, start, total_time, seedGets, todo,
                   data, tasks, gets, resp, result, fs, next_result, file_num,
                   files, out>>

----------------------------------------------------------------------------
(* crawl on a request nobody validated *)

\* Line 136 with cpus < 1: ProcessPoolExecutor raises ValueError (max_workers
\* must be greater than 0) before executor.map is reached.
pool_create_raise ==
    /\ pc = "map"
    /\ cpus < 1
    /\ pc' = "pool_raised"
    /\ UNCHANGED <<args, ret, cpus, file_types, now, start, total_time, seedGets,
                   todo, data, tasks, tpc, gets, resp, result, fs, next_result,
                   file_num, files, out>>

\* Lines 81-82, inside executor.map: the generator reaches a tag the catalog
\* lacks and raises KeyError; the calls submitted so far stay submitted.
map_keyerror ==
    /\ pc = "submit"
    /\ todo = <<>>
    /\ data # NoData
    /\ RaisesKeyError(file_types)
    /\ pc' = "unwind"
    /\ UNCHANGED <<args, ret, cpus, file_types, now, start, total_time, seedGets,
                   todo, data, tasks, tpc, gets, resp, result, fs, next_result,
                   file_num, files, out>>

\* Line 136, leaving the with block on the KeyError: shutdown(wait=True)
\* lets every submitted call run to its end, then the KeyError goes on.
pool_unwind ==
    /\ pc = "unwind"
    /\ \A i \in Calls : tpc[i] = "returned"
    /\ pc' = "key_raised"
    /\ UNCHANGED <<args, ret, cpus, file_types, now, start, total_time, seedGets,
                   todo, data, tasks, tpc, gets, resp, result, fs, next_result,
                   file_num, files, out>>

----------------------------------------------------------------------------
(* main *)

CPUS == 1

\* The argument vectors main is called with.
ArgVectors ==
    {<<"u">>,
     <<"-n", "2", "-f", "jpg", "u">>,
     <<"-d", "out", "-f", "jpg", "-f", "png", "u">>,
     <<"-f", "bmp", "u">>,
     <<"-f", "jpg,bmp", "u">>,
     <<"-n", "0", "u">>,
     <<"-n", "-1", "u">>,
     <<"-n", "abc", "u">>,
     <<"-h">>,
     <<"-x", "u">>,
     <<"-f", "jpg">>,
     <<"u", "v">>,
     <<"u", "-n">>}

\* str.split(',') on the operands of -f.
SplitComma(text) ==
    CASE text = "jpg"     -> <<"jpg">>
      [] text = "png"     -> <<"png">>
      [] text = "bmp"     -> <<"bmp">>
      [] text = "jpg,bmp" -> <<"jpg", "bmp">>
      [] text = "jpg,png" -> <<"jpg", "png">>

\* int() on the operands of -n: the integer, or ValueError.
IsIntText(text) == text \in {"-1", "0", "1", "2"}

IntOf(text) ==
    CASE text = "-1" -> 0 - 1
      [] text = "0"  -> 0
      [] text = "1"  -> 1
      [] text = "2"  -> 2

\* argument[0] == '-'
StartsWithDash(text) == text \in {"-d", "-f", "-h", "-n", "-x", "-1"}

\* Lines 168-171: main's locals before the loop.
MainLocals ==
    [destination |-> "", filetypes |-> <<>>, cpus |-> CPUS, url |-> "", exit |-> ""]

\* Lines 172-193: the while loop over the arguments. exit names how the loop
\* was left early: usage(0), usage(1), or an uncaught exception.
RECURSIVE ParseArgs(_, _)
ParseArgs(arguments, st) ==
    IF arguments = <<>> THEN st
    ELSE
      LET argument == Head(arguments)
          rest     == Tail(arguments)
      IN  IF argument \in {"-d", "-f", "-n"} /\ rest = <<>>
          THEN [st EXCEPT !.exit = "IndexError"]
          ELSE IF argument = "-d"
          THEN ParseArgs(Tail(rest), [st EXCEPT !.destination = Head(rest)])
          ELSE IF argument = "-f"
          THEN ParseArgs(Tail(rest),
                         [st EXCEPT !.filetypes = @ \o SplitComma(Head(rest))])
          ELSE IF argument = "-h"
          THEN [st EXCEPT !.exit = "usage0"]
          ELSE IF argument = "-n"
          THEN IF IsIntText(Head(rest))
               THEN ParseArgs(Tail(rest), [st EXCEPT !.cpus = IntOf(Head(rest))])
               ELSE [st EXCEPT !.exit = "ValueError"]
          ELSE IF StartsWithDash(argument)
          THEN [st EXCEPT !.exit = "usage1"]
          ELSE IF st.url = ""
          THEN ParseArgs(rest, [st EXCEPT !.url = argument])
          ELSE [st EXCEPT !.exit = "usage1"]

\* Lines 168-197: the locals when main leaves or calls crawl.
Parsed ==
    LET st == ParseArgs(args, MainLocals)
    IN  IF st.exit # "" THEN st
        ELSE LET defaulted ==
                    IF st.filetypes = <<>>
                    THEN [st EXCEPT !.filetypes = <<"mp3", "png", "jpg", "pdf">>]
                    ELSE st
             IN  IF defaulted.url = "" THEN [defaulted EXCEPT !.exit = "usage1"]
                 ELSE defaulted

\* Lines 184, 188, 193, 197: usage() prints the help text and exits.
main_usage ==
    /\ pc = "main"
    /\ Parsed.exit \in {"usage0", "usage1"}
    /\ file_types' = Parsed.filetypes
    /\ cpus' = Parsed.cpus
    /\ pc' = "usage"
    /\ UNCHANGED <<args, ret, now, start, total_time, seedGets, todo, data, tasks,
                   tpc, gets, resp, result, fs, next_result, file_num, files, out>>

\* Lines 175, 182, 186: int() raises ValueError, or pop(0) raises IndexError
\* on a missing operand; main catches neither.
main_raise ==
    /\ pc = "main"
    /\ Parsed.exit \in {"ValueError", "IndexError"}
    /\ file_types' = Parsed.filetypes
    /\ cpus' = Parsed.cpus
    /\ pc' = "main_raised"
    /\ UNCHANGED <<args, ret, now, start, total_time, seedGets, todo, data, tasks,
                   tpc, gets, resp, result, fs, next_result, file_num, files, out>>

\* Line 198: main calls crawl with what it parsed, as it is.
main_crawl ==
    /\ pc = "main"
    /\ Parsed.exit = ""
    /\ file_types' = Parsed.filetypes
    /\ cpus' = Parsed.cpus
    /\ pc' = "begin"
    /\ UNCHANGED <<args, ret, now, start, total_time, seedGets, todo, data, tasks,
                   tpc, gets, resp, result, fs, next_result, file_num, files, out>>

----------------------------------------------------------------------------
(* resolve_url called directly *)

Bases ==
    {BaseUrl,
     Url("https", "seed", <<"dir", "page.html">>),
     Url("https", "seed", <<"a", "b", "">>),
     Url("https", "seed", <<"">>),
     Url("http", "plain", <<"dir", "">>)}

Candidates ==
    {Url("https", "other", <<"b.png">>),
     Url("https", "seed", <<"dir", "a.jpg">>),
     Url("http", "other", <<"y", "c.png">>),
     Url("http", "plain", <<"c.png">>),
     Rel(<<"a.jpg">>),
     Rel(<<"x", "a.jpg">>),
     Rel(<<".", "a.jpg">>),
     Rel(<<"..", "a.jpg">>),
     Rel(<<"x", "">>),
     Rel(<<"", "img", "a.jpg">>),
     Rel(<<"", "", "cdn", "a.jpg">>),
     Rel(<<"r", "https:", "", "o", "a.jpg">>)}

\* Lines 60-63.
resolve_url_call ==
    /\ pc = "resolve"
    /\ ret' = <<resolve_url(args[1], args[2])>>
    /\ pc' = "resolved"
    /\ UNCHANGED <<args, cpus, file_types, now, start, total_time, seedGets,
                   todo, data, tasks, tpc, gets, resp, result, fs, next_result,
                   file_num, files, out>>

ResolveInit ==
    /\ pc = "resolve"
    /\ args \in {<<base, url>> : base \in Bases, url \in Candidates}
    /\ ret = NoReturn
    /\ cpus = CPUS
    /\ file_types = <<>>
    /\ now = 0
    /\ start = NoTime
    /\ total_time = NoTime
    /\ seedGets = 0
    /\ todo = <<>>
    /\ data = NoData
    /\ tasks = <<>>
    /\ tpc = <<>>
    /\ gets = <<>>
    /\ resp = <<>>
    /\ result = <<>>
    /\ fs = <<>>
    /\ next_result = 1
    /\ file_num = 0
    /\ files = <<>>
    /\ out = <<>>

ResolveNext == resolve_url_call

ResolveSpec == ResolveInit /\ [][ResolveNext]_vars

----------------------------------------------------------------------------
(* download_url called on its own: two calls on a pool of two workers *)

\* URLs download_url may be given: https://h/x/a.jpg, the same with a
\* trailing slash, https://h/y/b.png/, https://h/y/e.jpg// and https://h/.
DownloadUrls ==
    {Url("https", "h", <<"x", "a.jpg">>),
     Url("https", "h", <<"x", "a.jpg", "">>),
     Url("https", "h", <<"y", "b.png", "">>),
     Url("https", "h", <<"y", "e.jpg", "", "">>),
     Url("https", "h", <<"">>)}

DownloadInit ==
    /\ pc = "download"
    /\ tasks \in {<<u, v>> : u \in DownloadUrls, v \in DownloadUrls}
    /\ tpc = <<"queued", "queued">>
    /\ gets = <<0, 0>>
    /\ resp = <<NoBody, NoBody>>
    /\ result = <<None, None>>
    /\ cpus = MaxCpus
    /\ args = <<>>
    /\ ret = NoReturn
    /\ file_types = <<>>
    /\ now = 0
    /\ start = NoTime
    /\ total_time = NoTime
    /\ seedGets = 0
    /\ todo = <<>>
    /\ data = NoData
    /\ fs = <<>>
    /\ next_result = 1
    /\ file_num = 0
    /\ files = <<>>
    /\ out = <<>>

DownloadNext ==
    \E i \in Calls :
        \/ download_url_begin(i)
        \/ download_url_fail(i)
        \/ download_url_get(i)
        \/ download_url_open(i)
        \/ download_url_open_raise(i)
        \/ download_url_write(i)

DownloadSpec == DownloadInit /\ [][DownloadNext]_vars

----------------------------------------------------------------------------
(* Specifications *)

Next ==
    \/ Tick
    \/ crawl_begin
    \/ extract_urls_fail
    \/ extract_urls_ok
    \/ map_submit
    \/ map_return
    \/ crawl_collect
    \/ pool_exit
    \/ crawl_stop_clock
    \/ crawl_report_raise
    \/ crawl_report
    \/ \E i \in Calls : download_url_begin(i)
    \/ \E i \in Calls : download_url_fail(i)
    \/ \E i \in Calls : download_url_get(i)
    \/ \E i \in Calls : download_url_open(i)
    \/ \E i \in Calls : download_url_write(i)

Spec == Init /\ [][Next]_vars

\* Every step but the clock's: the main process and the workers are scheduled
\* by the operating system and, every GET returning, none of them waits for
\* ever.
Progress ==
    \/ crawl_begin
    \/ extract_urls_fail
    \/ extract_urls_ok
    \/ map_submit
    \/ map_return
    \/ crawl_collect
    \/ pool_exit
    \/ crawl_stop_clock
    \/ crawl_report_raise
    \/ crawl_report
    \/ \E i \in Calls : download_url_begin(i)
    \/ \E i \in Calls : download_url_fail(i)
    \/ \E i \in Calls : download_url_get(i)
    \/ \E i \in Calls : download_url_open(i)
    \/ \E i \in Calls : download_url_write(i)

FairSpec == Spec /\ WF_vars(Progress)

\* main called with any of the argument vectors.
MainInit ==
    /\ pc = "main"
    /\ args \in ArgVectors
    /\ cpus = CPUS
    /\ file_types = <<>>
    /\ now = 0
    /\ start = NoTime
    /\ total_time = NoTime
    /\ seedGets = 0
    /\ todo = <<>>
    /\ data = NoData
    /\ tasks = <<>>
    /\ tpc = <<>>
    /\ gets = <<>>
    /\ resp = <<>>
    /\ result = <<>>
    /\ fs = <<>>
    /\ next_result = 1
    /\ file_num = 0
    /\ files = <<>>
    /\ out = <<>>
    /\ ret = NoReturn

MainNext ==
    \/ main_usage
    \/ main_raise
    \/ main_crawl
    \/ pool_create_raise
    \/ map_keyerror
    \/ pool_unwind
    \/ Next

MainSpec == MainInit /\ [][MainNext]_vars

----------------------------------------------------------------------------
(* What the claims speak of *)

\* The calls that returned a path (Saved) and those that returned None.
Saved == {i \in Calls : tpc[i] = "returned" /\ result[i] # None}

Failed == {i \in Calls : tpc[i] = "returned" /\ result[i] = None}

SeedFailed == seedGets = 1 /\ data = NoData

\* The four report lines are the last thing printed.
ReportPrinted ==
    /\ Len(out) >= 4
    /\ SubSeq(out, Len(out) - 3, Len(out)) = ReportLines

\* The value printed on the report line of that name.
Reported(name) ==
    LET k == CHOOSE k \in 1..Len(out) : out[k].line = name IN out[k].value

\* The number of bytes call i wrote.
BytesWritten(i) == resp[i]

\* The sum of f[x] over the x in S.
RECURSIVE SumOver(_, _)
SumOver(f, S) ==
    IF S = {} THEN 0
    ELSE LET x == CHOOSE x \in S : TRUE IN f[x] + SumOver(f, S \ {x})

\* crawl with cpus = 1 on the same URLs and the same responses: the single
\* worker runs the calls one after the other, each to its end.
RECURSIVE SeqFs(_)
SeqFs(n) ==
    IF n = 0 THEN <<>>
    ELSE IF resp[n] = NoBody THEN SeqFs(n - 1)
         ELSE WriteAtZero(OpenTruncate(SeqFs(n - 1), Filename(tasks[n], DESTINATION)),
                          Filename(tasks[n], DESTINATION), Body(n, resp[n]))

SeqSaved == {i \in Calls : resp[i] # NoBody}

SeqFileNum == Cardinality(SeqSaved)

SeqSizeOf(i) == StatSize(SeqFs(Len(tasks)), Filename(tasks[i], DESTINATION))

SeqSizeTotalBytes == SumOver([i \in Calls |-> SeqSizeOf(i)], SeqSaved)

\* The sequential reference is what the model itself does with one worker.
SeqAgrees ==
    (cpus = 1 /\ pc = "done") =>
        /\ fs = SeqFs(Len(tasks))
        /\ file_num = SeqFileNum
        /\ SizeTotalBytes = SeqSizeTotalBytes

\* crawl ends, one way or the other (under FairSpec).
EventuallyTerminated == <>Terminated

\* With a non-zero elapsed time crawl ends by printing the report.
ReportedWhenTimePassed ==
    (Terminated /\ total_time # 0) => (pc = "done" /\ ReportPrinted)

\* A failed seed GET starts no download and writes no file, and a report that
\* is printed shows 0 files and 0.00 MB.
SeedFailureDownloadsNothing ==
    SeedFailed =>
        /\ tasks = <<>> /\ todo = <<>> /\ fs = <<>>
        /\ pc = "done" => (Reported("Files Downloaded") = 0
                             /\ Reported("Bytes Downloaded") = 0)

\* The file count is right, and so is the byte total when no two Saved
\* downloads share a filename.
TotalsWithoutCollision ==
    pc = "done" =>
        /\ file_num = Cardinality(Saved)
        /\ (\A i, j \in Saved :
                i # j => Filename(tasks[i], DESTINATION) # Filename(tasks[j], DESTINATION))
            => /\ SizeTotalBytes = SumOver([i \in Calls |-> BytesWritten(i)], Saved)
               /\ SizeTotalBytes = SeqSizeTotalBytes
               /\ file_num = SeqFileNum

\* The clock is stopped only after every result has been collected.
ClockStoppedAfterCollect ==
    total_time # NoTime => (todo = <<>> /\ next_result = Len(tasks) + 1)

TypeOK ==
    /\ pc \in {"begin", "map", "submit", "collect", "stop", "report", "done", "raised"}
    /\ cpus \in 1..MaxCpus
    /\ now \in 0..MaxClock
    /\ start \in {NoTime} \cup 0..MaxClock
    /\ total_time \in {NoTime} \cup 0..MaxClock
    /\ Len(tpc) = Len(tasks) /\ Len(gets) = Len(tasks)
    /\ Len(resp) = Len(tasks) /\ Len(result) = Len(tasks)
    /\ \A i \in Calls : tpc[i] \in {"queued", "returned"} \cup Running
    /\ next_result \in 1..(Len(tasks) + 1)
    /\ file_num = Len(files)

----------------------------------------------------------------------------
(* Claims *)

\* C1: at every moment the number of download_url calls that have started and
\* not yet returned is at most the parallelism cpus; the URLs beyond that stay
\* queued until a running call returns.
C1_InFlightAtMostCpus ==
    /\ Cardinality(InFlight) <= cpus
    /\ \A i \in Calls :
         (tpc[i] = "queued" /\ Cardinality(InFlight) = cpus) =>
             ~ENABLED download_url_begin(i)

\* C1 witness: more URLs than workers, every worker busy and a URL waiting
\* behind them after an earlier call has returned.
C1_Witness ==
    /\ Len(tasks) > cpus
    /\ cpus > 1
    /\ Cardinality(InFlight) = cpus
    /\ \E i \in Calls : tpc[i] = "queued"
    /\ \E i \in Calls : tpc[i] = "returned"

\* C2 (as claimed): whatever the seed page and the downloads do, crawl ends by
\* printing the four report lines; it never ends any other way.
C2_AlwaysEndsWithReport ==
    Terminated => (pc = "done" /\ ReportPrinted)

\* C3 (as claimed): the report's file count is the number of Saved downloads
\* and its byte total is the sum of the bytes each Saved download wrote.
C3_TotalsAreBytesWritten ==
    pc = "done" =>
        /\ file_num = Cardinality(Saved)
        /\ SizeTotalBytes = SumOver([i \in Calls |-> BytesWritten(i)], Saved)

\* C4 (as claimed): with the same URLs and the same responses, the file count
\* and the byte total are those of the run with one worker, whatever the
\* interleaving of the workers.
C4_SameTotalsAsSequential ==
    pc = "done" =>
        /\ file_num = SeqFileNum
        /\ SizeTotalBytes = SeqSizeTotalBytes

\* C5 (as claimed): when the measured elapsed time is zero, crawl does not
\* fail: it prints the report, with a bandwidth of 0.
C5_ZeroElapsedReportsZeroBandwidth ==
    (Terminated /\ total_time = 0) =>
        (pc = "done" /\ ReportPrinted /\ Reported("Bandwidth") = 0)

\* C6 (as claimed): when the seed GET fails, no download is started, no file
\* is written, and crawl prints a report with 0 files and 0.00 MB.
C6_SeedFailureReportsZeros ==
    /\ SeedFailed => (tasks = <<>> /\ todo = <<>> /\ fs = <<>>)
    /\ (SeedFailed /\ Terminated) =>
          /\ pc = "done"
          /\ ReportPrinted
          /\ Reported("Files Downloaded") = 0
          /\ Reported("Bytes Downloaded") = 0

\* C7: the seed page is fetched with exactly one GET, every URL occurrence the
\* extractor yields is submitted, attempted with exactly one GET and gives
\* exactly one result; no GET is retried and no URL skipped.
C7_OneGetPerUrl ==
    /\ seedGets <= 1
    /\ pc \notin {"begin", "map"} => seedGets = 1
    /\ \A i \in Calls :
         /\ gets[i] <= 1
         /\ tpc[i] \in {"open", "write", "returned"} => gets[i] = 1
    /\ data # NoData => tasks \o todo = ExtractFrom(BaseUrl, file_types, data[1])
    /\ data = NoData => tasks \o todo = <<>>
    /\ pc \in {"stop", "report", "done", "raised"} =>
         /\ todo = <<>>
         /\ next_result = Len(tasks) + 1
         /\ \A i \in Calls : tpc[i] = "returned" /\ gets[i] = 1
         /\ Saved \cup Failed = Calls
         /\ file_num = Cardinality(Saved)

\* C7 witness: a crawl that ended after a duplicated URL was downloaded twice
\* and one of the GETs failed.
C7_Witness ==
    /\ Terminated
    /\ \E i, j \in Calls : i # j /\ tasks[i] = tasks[j]
    /\ Failed # {}
    /\ Saved # {}

\* C8: a download whose GET fails returns None and leaves the destination
\* directory as it was: no file created, truncated or overwritten.
C8_FailedGetLeavesDirectory ==
    [][\A i \in Calls :
          (tpc[i] = "get" /\ tpc'[i] = "returned") =>
              (result'[i] = None /\ fs' = fs)]_vars

\* C8 witness: with one worker, a GET failed after an earlier download had
\* written the file of the same name, and that file still holds its body.
C8_Witness ==
    /\ cpus = 1
    /\ \E i, j \in Calls :
         /\ j < i
         /\ i \in Failed
         /\ j \in Saved
         /\ Filename(tasks[i], DESTINATION) = Filename(tasks[j], DESTINATION)
         /\ fs[Filename(tasks[j], DESTINATION)] = Body(j, resp[j])

\* C9 (as claimed): once two downloads of the same filename have both
\* returned, the file holds exactly the body of one of the two, never a
\* mixture.
C9_LastWriterWins ==
    \A i, j \in Saved :
        (/\ i # j
         /\ Filename(tasks[i], DESTINATION) = Filename(tasks[j], DESTINATION)
         /\ \A k \in Calls \ {i, j} :
              Filename(tasks[k], DESTINATION) = Filename(tasks[i], DESTINATION)
                  => (k \in Failed \/ tpc[k] \in {"queued", "get"}))
        => fs[Filename(tasks[i], DESTINATION)]
               \in {Body(i, resp[i]), Body(j, resp[j])}

\* C10 (as claimed): the seed GET has completed when the clock is started, and
\* the clock is stopped only after the last result is collected.
C10_ClockCoversDispatchAndCollect ==
    /\ start # NoTime => seedGets = 1
    /\ total_time # NoTime => (todo = <<>> /\ next_result = Len(tasks) + 1)

\* The request main was given is malformed: a tag of some -f operand is not
\* in the catalog, or some -n operand is not a positive integer.
MalformedInput ==
    \E k \in 1..(Len(args) - 1) :
        \/ /\ args[k] = "-f"
           /\ \E t \in 1..Len(SplitComma(args[k + 1])) :
                 SplitComma(args[k + 1])[t] \notin DOMAIN FILE_REGEX
        \/ /\ args[k] = "-n"
           /\ (IsIntText(args[k + 1]) => IntOf(args[k + 1]) < 1)

\* C11 (as claimed): on malformed input main leaves with a usage exit before
\* the core runs: no GET is issued, no download started, no file written.
C11_MalformedInputRejected ==
    (pc # "main" /\ MalformedInput) =>
        (pc = "usage" /\ seedGets = 0 /\ tasks = <<>> /\ fs = <<>>)

\* What main does instead: it never ends a malformed request with usage; a
\* tag outside the catalog reaches the seed GET, a bad parallelism does not.
MalformedInputNeverUsage == MalformedInput => pc # "usage"

BadParallelismIssuesNoGet ==
    (\E k \in 1..(Len(args) - 1) :
        args[k] = "-n" /\ (IsIntText(args[k + 1]) => IntOf(args[k + 1]) < 1))
    => (seedGets = 0 /\ tasks = <<>> /\ fs = <<>> /\ pc # "done")

\* C12: with one worker, when two extracted URLs derive the same filename
\* and both downloads succeed, the later one overwrites the earlier: after
\* the crawl the file holds exactly the later body and has its size.
C12_LaterDownloadOverwrites ==
    (cpus = 1 /\ Terminated) =>
        \A i, j \in Saved :
            (/\ i < j
             /\ Filename(tasks[i], DESTINATION) = Filename(tasks[j], DESTINATION)
             /\ \A k \in Saved :
                  Filename(tasks[k], DESTINATION) = Filename(tasks[j], DESTINATION)
                      => k <= j)
            => /\ fs[Filename(tasks[j], DESTINATION)] = Body(j, resp[j])
               /\ StatSize(fs, Filename(tasks[j], DESTINATION)) = resp[j]

\* C12 witness: one worker, two distinct URLs of the same filename both
\* saved, the earlier body longer than the later one, and the crawl over.
C12_Witness ==
    /\ cpus = 1
    /\ Terminated
    /\ \E i, j \in Saved :
         /\ i < j
         /\ tasks[i] # tasks[j]
         /\ Filename(tasks[i], DESTINATION) = Filename(tasks[j], DESTINATION)
         /\ resp[i] > resp[j]

\* A relative candidate path: no scheme and no host of its own.
IsRelativePath(url) == url.scheme = "" /\ ~IsNetworkPath(url)

\* C13 (as claimed): resolve_url returns an absolute candidate unchanged
\* whatever the base, and turns a relative candidate into an absolute URL
\* with the base's scheme and host.
C13_ResolveUrl ==
    pc = "resolved" =>
        /\ IsAbsolute(args[2]) => ret[1] = args[2]
        /\ IsRelativePath(args[2]) =>
              /\ IsAbsolute(ret[1])
              /\ ret[1].scheme = args[1].scheme
              /\ ret[1].host = args[1].host

\* What does hold: absolute candidates come back unchanged, and so do the
\* relative paths without "https://" in their text, resolved on the base.
ResolveWithoutEmbeddedScheme ==
    pc = "resolved" =>
        /\ IsAbsolute(args[2]) => ret[1] = args[2]
        /\ (IsRelativePath(args[2]) /\ ~ContainsHttps(args[2])) =>
              /\ IsAbsolute(ret[1])
              /\ ret[1].scheme = args[1].scheme
              /\ ret[1].host = args[1].host
        /\ (IsRelativePath(args[2]) /\ ContainsHttps(args[2])) => ret[1] = args[2]

\* The raw matches of the page received: rule r of requested tag t, and how
\* many matches come before those of (t, r) in tag order, then rule order.
RawMatches(t, r) == data[1][FILE_REGEX[file_types[t]][r]]

RulePairs ==
    UNION {{<<t, r>> : r \in 1..Len(FILE_REGEX[file_types[t]])} :
               t \in 1..Len(file_types)}

MatchesBefore(t, r) ==
    SumOver([p \in RulePairs |-> Len(RawMatches(p[1], p[2]))],
            {p \in RulePairs : p[1] < t \/ (p[1] = t /\ p[2] < r)})

\* C14: on a successful page fetch extract_urls yields one resolved URL per
\* raw match, ordered by requested tag, then by rule of the catalog, then by
\* position of the match; nothing is deduplicated, so the sequence is as long
\* as there are raw matches.
C14_YieldsEveryMatchInOrder ==
    data # NoData =>
        LET yields == tasks \o todo
        IN  /\ Len(yields) =
                   SumOver([p \in RulePairs |-> Len(RawMatches(p[1], p[2]))], RulePairs)
            /\ \A p \in RulePairs :
                 \A m \in 1..Len(RawMatches(p[1], p[2])) :
                    /\ MatchesBefore(p[1], p[2]) + m <= Len(yields)
                    /\ yields[MatchesBefore(p[1], p[2]) + m]
                           = resolve_url(BaseUrl, RawMatches(p[1], p[2])[m])

\* C14 witness: png was asked for before jpg on a page with one png match and
\* three jpg matches under two rules; all four URLs have been yielded, the
\* png first.
C14_Witness ==
    /\ data = <<PageCollide>>
    /\ file_types = <<"png", "jpg">>
    /\ todo = <<>>
    /\ Len(tasks) = 4
    /\ tasks[1].path = <<"b.png">>
    /\ tasks[4].path = <<"dir", "e.jpg">>

\* The final path segment of a URL after one trailing slash is stripped: "" if
\* the path then ends in a slash still, or is empty.
FinalSegment(url) ==
    LET p == url.path
        q == IF p # <<>> /\ p[Len(p)] = "" THEN SubSeq(p, 1, Len(p) - 1) ELSE p
    IN  IF q = <<>> THEN "" ELSE q[Len(q)]

GetSucceeded == {i \in Calls : resp[i] # NoBody}

\* A call whose GET succeeded did not raise, and once it has returned, the
\* file of its final segment holds its body when no other call has that name.
WritesOwnFile(i) ==
    LET name == <<DESTINATION, FinalSegment(tasks[i])>>
    IN  /\ tpc[i] # "raised"
        /\ tpc[i] = "returned" =>
              /\ result[i] = name
              /\ name \in DOMAIN fs
              /\ (\A j \in Calls \ {i} :
                      FinalSegment(tasks[j]) # FinalSegment(tasks[i]))
                 => fs[name] = Body(i, resp[i])

\* C15: a download whose GET succeeded writes exactly one file, named by the
\* URL's final path segment after one trailing slash is stripped and holding
\* the response body; when the names of concurrent downloads are pairwise
\* distinct, each file holds its own body under every interleaving.
C15_DownloadWritesOwnFile ==
    /\ \A i \in GetSucceeded : WritesOwnFile(i)
    /\ Cardinality(DOMAIN fs) <= Cardinality(GetSucceeded)

\* The same for the URLs whose final segment is not empty.
DownloadWritesOwnFileWhenNamed ==
    /\ \A i \in GetSucceeded : FinalSegment(tasks[i]) # "" => WritesOwnFile(i)
    /\ Cardinality(DOMAIN fs) <= Cardinality(GetSucceeded)

\* Two downloads with distinct names, one of them of a URL with a trailing
\* slash, have both returned after running at the same time.
DownloadedSideBySide ==
    /\ pc = "download"
    /\ \A i \in Calls : tpc[i] = "returned" /\ result[i] # None
    /\ tasks[1].path = <<"x", "a.jpg", "">>
    /\ tasks[2].path = <<"y", "b.png", "">>
    /\ fs[<<DESTINATION, "a.jpg">>] = Body(1, resp[1])
    /\ fs[<<DESTINATION, "b.png">>] = Body(2, resp[2])

\* The number of progress lines printed for the URL u.
ProgressLines(u) ==
    Cardinality({k \in 1..Len(out) : out[k] = [line |-> "Downloading", value |-> u]})

\* C16: every download attempt prints its progress line exactly once, and
\* before its GET: the lines printed for a URL are as many as the attempts on
\* it that have started, and no attempt has issued a GET without its line,
\* whether that GET succeeds or fails.
C16_ProgressLineOncePerAttempt ==
    \A u \in {tasks[i] : i \in Calls} :
        /\ ProgressLines(u) =
               Cardinality({i \in Calls : tasks[i] = u /\ tpc[i] # "queued"})
        /\ ProgressLines(u) >=
               Cardinality({i \in Calls : tasks[i] = u /\ gets[i] > 0})

\* C16 witness: the same URL was attempted twice, one GET failed and one
\* succeeded, and two progress lines were printed for it.
C16_Witness ==
    \E i \in Failed : \E j \in Saved :
        /\ tasks[i] = tasks[j]
        /\ ProgressLines(tasks[i]) = 2

\* crawl is past the with block: at the clock reading of line 142, at the
\* sizes and prints of lines 143-149, or ended.
PastPool == pc \in {"stop", "report", "done", "raised"}

\* C17: the report is computed and printed only after every dispatched
\* download has returned and the pool has shut down: while the clock is
\* stopped, the sizes are read or the lines are printed, every URL has been
\* dispatched and no call is queued, at its GET or at its file.
C17_ReportAfterAllDownloads ==
    PastPool => /\ todo = <<>>
                /\ \A i \in Calls : tpc[i] = "returned"
                /\ next_result = Len(tasks) + 1

\* C17 witness: two workers ran several downloads, one of them saved a file,
\* and the report has been printed.
C17_Witness ==
    /\ pc = "done"
    /\ cpus > 1
    /\ Len(tasks) > 2
    /\ Saved # {}
    /\ ReportPrinted

\* The paths of the first n URLs in the extractor's order, without those
\* whose download failed.
RECURSIVE SavedPathsUpTo(_)
SavedPathsUpTo(n) ==
    IF n = 0 THEN <<>>
    ELSE IF n \in Saved
         THEN Append(SavedPathsUpTo(n - 1), Filename(tasks[n], DESTINATION))
         ELSE SavedPathsUpTo(n - 1)

\* C18: crawl collects the results in the order the URLs were submitted,
\* whatever the order in which the workers finish: files is the extractor's
\* URL order, up to the result the loop is waiting for, with the failed
\* attempts removed, and a call that finished early stays uncollected until
\* every call before it has been collected.
C18_CollectedInSubmissionOrder ==
    /\ files = SavedPathsUpTo(next_result - 1)
    /\ \A i \in 1..(next_result - 1) : tpc[i] = "returned"

\* C18 witness: the third download has finished and saved its file while the
\* second is still running; only the first result has been collected.
C18_Witness ==
    /\ pc = "collect"
    /\ next_result = 2
    /\ Len(tasks) > 2
    /\ files = <<Filename(tasks[1], DESTINATION)>>
    /\ tpc[2] \in Running
    /\ 3 \in Saved

====
